---- MODULE Spec2Model ----
(***************************************************************************)
(* PersistentMap of aws_lambda_persistence: a dict-like object whose       *)
(* content is pickled into one DynamoDB item.  The model keeps every       *)
(* instance field of the class, the remote table and item, and a record of *)
(* what the most recent call did (the remote calls it issued, in order,    *)
(* and the exception it raised, if any).                                   *)
(*                                                                         *)
(* A Python dict is an insertion-ordered sequence of <<key, value>> pairs  *)
(* with distinct keys; a value is a str object, which has an identity and  *)
(* a content.  pickle.dumps is a sequence of opcode and payload tokens: it *)
(* depends on the insertion order and, through the pickler's memo, on      *)
(* which values are one and the same object, as it does in Python.         *)
(***************************************************************************)
EXTENDS Naturals, Sequences, FiniteSets, TLC

\* ------------------------------------------------------------------ bounds
MaxPuts == 2
MaxArgLen == 1
MaxKwLen == 1

Inst == {1, 2}
Keys == {"a", "b"}
\* The str objects given as values: x and y are two objects 'v1', z is 'v2'.
Values == {"x", "y", "z"}
ValueOrder == <<"x", "y", "z">>
StrOf(v) == IF v = "z" THEN "v2" ELSE "v1"

\* ------------------------------------------------------- program constants
PERMISSION_MESSAGE == "The AWS Lambda function's IAM role is missing a necessary permission."

config_keys == {"table_name", "table_key", "key_field_name", "value_field_name"}

\* ---------------------------------------------------------- Python values
\* None and a dict, as the two values _previous_store takes.
None == [isNone |-> TRUE, items |-> <<>>]
Dict(items) == [isNone |-> FALSE, items |-> items]

\* Exceptions: exc is the class, arg its message or botocore error code.
NoExc == [exc |-> "None", arg |-> ""]
ClientError(code) == [exc |-> "ClientError", arg |-> code]
WaiterError == [exc |-> "WaiterError", arg |-> "Waiter TableExists failed"]
KeyError(k) == [exc |-> "KeyError", arg |-> k]
ValueError == [exc |-> "ValueError", arg |-> "dictionary update sequence element has length 1; 2 is required"]
MissingAWSIAMPermissions(msg) == [exc |-> "MissingAWSIAMPermissions", arg |-> msg]
MixOfConfigAndMapArgsPassed == [exc |-> "MixOfConfigAndMapArgsPassed", arg |-> "A mix of PersistentMap configuration arguments and map arguments were passed"]

\* ------------------------------------------------------------- dict (builtin)
Has(d, k) == \E n \in 1..Len(d) : d[n][1] = k
Get(d, k) == d[CHOOSE n \in 1..Len(d) : d[n][1] = k][2]
KeysOf(d) == {d[n][1] : n \in 1..Len(d)}

\* d[k] = v : an existing key keeps its position, a new key goes last.
dict_setitem(d, k, v) ==
    IF Has(d, k)
    THEN [n \in 1..Len(d) |-> IF d[n][1] = k THEN <<k, v>> ELSE d[n]]
    ELSE Append(d, <<k, v>>)

dict_delitem(d, k) == SelectSeq(d, LAMBDA p : p[1] # k)

\* d.update(pairs): the pairs are merged left to right; an element that is
\* not a pair raises ValueError and leaves the earlier ones merged.
RECURSIVE dict_update(_, _)
dict_update(d, pairs) ==
    IF pairs = <<>> THEN [d |-> d, exc |-> NoExc]
    ELSE IF Len(Head(pairs)) # 2 THEN [d |-> d, exc |-> ValueError]
    ELSE dict_update(dict_setitem(d, Head(pairs)[1], Head(pairs)[2]), Tail(pairs))

\* A merge in which the keyword entries go first.
dict_update_kw_first(d, other, kwargs) ==
    LET r == dict_update(d, kwargs)
    IN  IF r.exc # NoExc THEN r ELSE dict_update(r.d, other)

\* d.update(other, **kwargs): other first, then the keyword entries.
dict_update_kw(d, other, kwargs) ==
    LET r == dict_update(d, other)
    IN  IF r.exc # NoExc THEN r ELSE dict_update(r.d, kwargs)

\* dict(*args, **kwargs) with at most one positional argument.
dict_new(args, kwargs) ==
    dict_update_kw(<<>>, IF args = <<>> THEN <<>> ELSE args[1], kwargs)

\* ------------------------------------------------------------------ pickle
\* The items of a dict as the pickler writes them, done being the items
\* written before: the key, then the str (opcode X and its content) or,
\* for an object the memo already has, a reference (opcode h) to the memo
\* entry, named here by the key the object was first written under.
RECURSIVE Flatten(_, _)
Flatten(d, done) ==
    IF d = <<>> THEN <<>>
    ELSE LET memo == {n \in 1..Len(done) : done[n][2] = d[1][2]}
             first == CHOOSE n \in memo : \A m \in memo : n <= m
         IN  (IF memo = {} THEN <<d[1][1], "X", StrOf(d[1][2])>>
                           ELSE <<d[1][1], "h", done[first][1]>>)
             \o Flatten(Tail(d), Append(done, d[1]))

\* pickle.dumps of None, and of a dict of str -> str.
pickle_dumps(x) ==
    IF x.isNone THEN <<"N", ".">>
    ELSE IF x.items = <<>> THEN <<"}", ".">>
    ELSE <<"}", "(">> \o Flatten(x.items, <<>>) \o <<"u", ".">>

\* pickle.dumps of a str value.
pickle_dumps_str(v) == <<"X", StrOf(v), ".">>

\* The object the unpickler makes for a str of content c: a new object, none
\* of those the dict under construction already holds.
NewStr(c, used) ==
    LET free == {n \in 1..Len(ValueOrder) :
                    StrOf(ValueOrder[n]) = c /\ ValueOrder[n] \notin used}
    IN  ValueOrder[CHOOSE n \in free : \A m \in free : n <= m]

\* The items the unpickler builds from the tokens t, d being those built.
RECURSIVE Unflatten(_, _)
Unflatten(t, d) ==
    IF Len(t) < 3 THEN d
    ELSE LET v == IF t[2] = "h" THEN Get(d, t[3])
                  ELSE NewStr(t[3], {d[n][2] : n \in 1..Len(d)})
         IN  Unflatten(SubSeq(t, 4, Len(t)), Append(d, <<t[1], v>>))

\* pickle.loads of the pickle of a dict: the dict's items.
pickle_loads(b) ==
    IF Len(b) <= 2 THEN <<>>
    ELSE Unflatten(SubSeq(b, 3, Len(b) - 2), <<>>)

\* copy.deepcopy: a new dict holding the same str objects (a str is atomic).
deepcopy(x) == x

\* -------------------------------------------------------------- environment
\* os.environ of the process: the Lambda runtime sets the function name and
\* no PERSISTENCE_* override is set.
Environ == [AWS_LAMBDA_FUNCTION_NAME |-> "fn"]
Unset == "<None>"
os_getenv(name, default) == IF name \in DOMAIN Environ THEN Environ[name] ELSE default

\* f"PERSISTENCE_{name.upper()}"
EnvName(name) ==
    CASE name = "table_name" -> "PERSISTENCE_TABLE_NAME"
      [] name = "table_key" -> "PERSISTENCE_TABLE_KEY"
      [] name = "key_field_name" -> "PERSISTENCE_KEY_FIELD_NAME"
      [] name = "value_field_name" -> "PERSISTENCE_VALUE_FIELD_NAME"

\* ------------------------------------------------------------ DynamoDB side
\* The one table the instances are configured for, and the one item in it.
TableName == "AWSLambdaPersistence"
NoTable == [table_exists |-> FALSE, item_present |-> FALSE, item_value |-> <<>>]

\* A fault is what the service answers at one call site of the class instead
\* of doing the call: load and get_item in __fetch_store, create_table, wait,
\* load2 and create_put_item in __create_table, put_item in __save_store.
NoFault == [at |-> "none", exc |-> NoExc]
ErrorCodes == {"AccessDeniedException", "InternalServerError"}
FaultsAt(sites) ==
    {[at |-> s, exc |-> ClientError(c)] : s \in sites \ {"wait"}, c \in ErrorCodes}
    \cup {[at |-> s, exc |-> WaiterError] : s \in sites \cap {"wait"}}
AllSites == {"load", "get_item", "create_table", "wait", "load2", "create_put_item", "put_item"}
Faults == {NoFault} \cup FaultsAt(AllSites)

\* One remote call as the service saw it: the API call, the pickled value it
\* carried (put_item only) and the exception it answered with.
Call(name, item, exc) == [name |-> name, item |-> item, exc |-> exc]

\* table.put_item(Item={key_field_name: table_key, value_field_name: value})
put_item(rem, value, f, site) ==
    IF f.at = site THEN [rem |-> rem, exc |-> f.exc]
    ELSE IF ~rem.table_exists
    THEN [rem |-> rem, exc |-> ClientError("ResourceNotFoundException")]
    ELSE [rem |-> [rem EXCEPT !.item_present = TRUE, !.item_value = value],
          exc |-> NoExc]

\* ------------------------------------------------------------ PersistentMap
\* The fields __init__ sets before it looks at its arguments.
NewInstance ==
    [store |-> <<>>, previous_store |-> None, save_on_set |-> TRUE,
     total_puts |-> 0, total_gets |-> 0,
     table_name |-> "AWSLambdaPersistence",
     table_key |-> os_getenv("AWS_LAMBDA_FUNCTION_NAME", Unset)]

\* What a method did: the instance after it, the remote side after it, the
\* remote calls it issued and the exception it raised (NoExc: it returned).
Outcome(st, rem, calls, exc) == [st |-> st, rem |-> rem, calls |-> calls, exc |-> exc]

\* except ClientError as e: AccessDeniedException becomes
\* MissingAWSIAMPermissions(PERMISSION_MESSAGE), anything else is re-raised;
\* an exception that is no ClientError is not caught.
save_except(e) ==
    IF e.exc = "ClientError" /\ e.arg = "AccessDeniedException"
    THEN MissingAWSIAMPermissions(PERMISSION_MESSAGE)
    ELSE e

\* An except clause that reports every ClientError as missing permissions.
init_except_any(e) ==
    IF e.exc = "ClientError"
    THEN MissingAWSIAMPermissions(PERMISSION_MESSAGE)
    ELSE e

init_except(e) ==
    IF e.exc = "ClientError" /\ e.arg = "AccessDeniedException"
    THEN MissingAWSIAMPermissions(PERMISSION_MESSAGE)
    ELSE e

\* A __save_store that does not compare store with the snapshot.
save_store_uncompared(st, rem, f) ==
    IF st.save_on_set
    THEN LET st1 == [st EXCEPT !.total_puts = @ + 1]
             b == pickle_dumps(Dict(st.store))
             r == put_item(rem, b, f, "put_item")
         IN  IF r.exc # NoExc
             THEN Outcome(st1, rem, <<Call("put_item", b, r.exc)>>, save_except(r.exc))
             ELSE Outcome([st1 EXCEPT !.previous_store = deepcopy(Dict(st.store))],
                          r.rem, <<Call("put_item", b, NoExc)>>, NoExc)
    ELSE Outcome(st, rem, <<>>, NoExc)

\* A __save_store that takes the snapshot before the put.
save_store_early(st, rem, f) ==
    IF pickle_dumps(Dict(st.store)) # pickle_dumps(st.previous_store) /\ st.save_on_set
    THEN LET st1 == [st EXCEPT !.total_puts = @ + 1,
                               !.previous_store = deepcopy(Dict(st.store))]
             b == pickle_dumps(Dict(st.store))
             r == put_item(rem, b, f, "put_item")
         IN  IF r.exc # NoExc
             THEN Outcome(st1, rem, <<Call("put_item", b, r.exc)>>, save_except(r.exc))
             ELSE Outcome(st1, r.rem, <<Call("put_item", b, NoExc)>>, NoExc)
    ELSE Outcome(st, rem, <<>>, NoExc)

\* A __save_store that does not refresh the snapshot after the put.
save_store_stale(st, rem, f) ==
    IF pickle_dumps(Dict(st.store)) # pickle_dumps(st.previous_store) /\ st.save_on_set
    THEN LET st1 == [st EXCEPT !.total_puts = @ + 1]
             b == pickle_dumps(Dict(st.store))
             r == put_item(rem, b, f, "put_item")
         IN  IF r.exc # NoExc
             THEN Outcome(st1, rem, <<Call("put_item", b, r.exc)>>, save_except(r.exc))
             ELSE Outcome(st1, r.rem, <<Call("put_item", b, NoExc)>>, NoExc)
    ELSE Outcome(st, rem, <<>>, NoExc)

\* A __save_store whose put_item is conditional on the item still holding
\* the snapshot.
save_store_conditional(st, rem, f) ==
    IF pickle_dumps(Dict(st.store)) # pickle_dumps(st.previous_store) /\ st.save_on_set
    THEN LET st1 == [st EXCEPT !.total_puts = @ + 1]
             b == pickle_dumps(Dict(st.store))
             r == IF rem.item_present /\ rem.item_value # pickle_dumps(st.previous_store)
                  THEN [rem |-> rem, exc |-> ClientError("ConditionalCheckFailedException")]
                  ELSE put_item(rem, b, f, "put_item")
         IN  IF r.exc # NoExc
             THEN Outcome(st1, rem, <<Call("put_item", b, r.exc)>>, save_except(r.exc))
             ELSE Outcome([st1 EXCEPT !.previous_store = deepcopy(Dict(st.store))],
                          r.rem, <<Call("put_item", b, NoExc)>>, NoExc)
    ELSE Outcome(st, rem, <<>>, NoExc)

\* A __save_store that creates the table when there is none.
save_store_creating(st, rem, f) ==
    IF pickle_dumps(Dict(st.store)) # pickle_dumps(st.previous_store) /\ st.save_on_set
    THEN LET st1 == [st EXCEPT !.total_puts = @ + 1]
             b == pickle_dumps(Dict(st.store))
             c == IF rem.table_exists THEN <<>> ELSE <<Call("create_table", <<>>, NoExc)>>
             r == put_item([rem EXCEPT !.table_exists = TRUE], b, f, "put_item")
         IN  IF r.exc # NoExc
             THEN Outcome(st1, r.rem, c \o <<Call("put_item", b, r.exc)>>, save_except(r.exc))
             ELSE Outcome([st1 EXCEPT !.previous_store = deepcopy(Dict(st.store))],
                          r.rem, c \o <<Call("put_item", b, NoExc)>>, NoExc)
    ELSE Outcome(st, rem, <<>>, NoExc)

\* __save_store
save_store(st, rem, f) ==
    IF pickle_dumps(Dict(st.store)) # pickle_dumps(st.previous_store) /\ st.save_on_set
    THEN LET st1 == [st EXCEPT !.total_puts = @ + 1]
             b == pickle_dumps(Dict(st.store))
             r == put_item(rem, b, f, "put_item")
         IN  IF r.exc # NoExc
             THEN Outcome(st1, rem, <<Call("put_item", b, r.exc)>>, save_except(r.exc))
             ELSE Outcome([st1 EXCEPT !.previous_store = deepcopy(Dict(st.store))],
                          r.rem, <<Call("put_item", b, NoExc)>>, NoExc)
    ELSE Outcome(st, rem, <<>>, NoExc)

\* A __setitem__ that does not compare the value with the one stored.
setitem_uncompared(st, rem, key, value, f) ==
    save_store([st EXCEPT !.store = dict_setitem(@, key, value)], rem, f)

\* __setitem__
setitem(st, rem, key, value, f) ==
    IF ~Has(st.store, key) \/ pickle_dumps_str(value) # pickle_dumps_str(Get(st.store, key))
    THEN save_store([st EXCEPT !.store = dict_setitem(@, key, value)], rem, f)
    ELSE Outcome(st, rem, <<>>, NoExc)

\* A __delitem__ that does not raise for a key the dict does not have.
delitem_silent(st, rem, key, f) ==
    save_store([st EXCEPT !.store = dict_delitem(@, key)], rem, f)

\* __delitem__
delitem(st, rem, key, f) ==
    IF ~Has(st.store, key)
    THEN Outcome(st, rem, <<>>, KeyError(key))
    ELSE save_store([st EXCEPT !.store = dict_delitem(@, key)], rem, f)

\* A __getitem__ that reads the item again before it answers.
getitem_refetched(st, rem, key) ==
    LET st1 == [st EXCEPT !.total_gets = @ + 1]
        d == IF rem.item_present THEN pickle_loads(rem.item_value) ELSE <<>>
    IN  [out |-> Outcome([st1 EXCEPT !.store = d], rem,
                         <<Call("get_item", <<>>, NoExc)>>,
                         IF Has(d, key) THEN NoExc ELSE KeyError(key)),
         ret |-> IF Has(d, key) THEN Get(d, key) ELSE ""]

\* __getitem__: the outcome, and in ret the value it returns.
getitem(st, rem, key) ==
    [out |-> Outcome(st, rem, <<>>, IF Has(st.store, key) THEN NoExc ELSE KeyError(key)),
     ret |-> IF Has(st.store, key) THEN Get(st.store, key) ELSE ""]

\* __iter__: the keys in insertion order.
iter(st, rem) ==
    [out |-> Outcome(st, rem, <<>>, NoExc),
     ret |-> [n \in 1..Len(st.store) |-> st.store[n][1]]]

\* __len__
len(st, rem) ==
    [out |-> Outcome(st, rem, <<>>, NoExc), ret |-> Len(st.store)]

\* __repr__: the repr of the dict, as tokens.
repr(st, rem) ==
    [out |-> Outcome(st, rem, <<>>, NoExc),
     ret |-> <<"{">> \o [n \in 1..(2 * Len(st.store)) |->
                            IF n % 2 = 1 THEN st.store[(n + 1) \div 2][1]
                            ELSE StrOf(st.store[n \div 2][2])] \o <<"}">>]

\* A clear that writes the empty dict whatever the snapshot is.
clear_forced(st, rem, f) ==
    save_store_uncompared([st EXCEPT !.store = <<>>, !.save_on_set = TRUE], rem, f)

\* clear
clear(st, rem, f) ==
    save_store([st EXCEPT !.store = <<>>, !.save_on_set = TRUE], rem, f)

\* update
update(st, rem, other, kwargs, f) ==
    LET m == dict_update_kw(st.store, other, kwargs)
    IN  IF m.exc # NoExc
        THEN Outcome([st EXCEPT !.save_on_set = FALSE, !.store = m.d], rem, <<>>, m.exc)
        ELSE save_store([st EXCEPT !.store = m.d, !.save_on_set = TRUE], rem, f)

\* A __create_table that puts the item without waiting for the table.
create_table_unwaited(st, rem, f) ==
    LET rem1 == [rem EXCEPT !.table_exists = TRUE]
        c1 == Call("create_table", <<>>, NoExc)
        st1 == [st EXCEPT !.total_puts = @ + 1]
        b == pickle_dumps(Dict(<<>>))
        r == put_item(rem1, b, f, "create_put_item")
    IN  IF f.at = "create_table"
        THEN Outcome(st, rem, <<Call("create_table", <<>>, f.exc)>>, f.exc)
        ELSE Outcome(st1, r.rem, <<c1, Call("put_item", b, r.exc)>>, r.exc)

\* __create_table: create the table, wait for it, load it, put an empty dict.
\* create_table answers ResourceInUseException when the table is there.
create_table(st, rem, f) ==
    LET rem1 == [rem EXCEPT !.table_exists = TRUE]
        c1 == Call("create_table", <<>>, NoExc)
        c2 == Call("wait", <<>>, NoExc)
        c3 == Call("load", <<>>, NoExc)
        st1 == [st EXCEPT !.total_puts = @ + 1]
        b == pickle_dumps(Dict(<<>>))
        r == put_item(rem1, b, f, "create_put_item")
        used == ClientError("ResourceInUseException")
    IN  IF f.at = "create_table"
        THEN Outcome(st, rem, <<Call("create_table", <<>>, f.exc)>>, f.exc)
        ELSE IF rem.table_exists
        THEN Outcome(st, rem, <<Call("create_table", <<>>, used)>>, used)
        ELSE IF f.at = "wait"
        THEN Outcome(st, rem1, <<c1, Call("wait", <<>>, f.exc)>>, f.exc)
        ELSE IF f.at = "load2"
        THEN Outcome(st, rem1, <<c1, c2, Call("load", <<>>, f.exc)>>, f.exc)
        ELSE Outcome(st1, r.rem, <<c1, c2, c3, Call("put_item", b, r.exc)>>, r.exc)

\* A __fetch_store that gets the item and returns an empty dict whatever
\* the item holds.
fetch_store_unread(st, rem, f) ==
    IF f.at = "load"
    THEN [out |-> Outcome(st, rem, <<Call("load", <<>>, f.exc)>>, f.exc), ret |-> <<>>]
    ELSE IF ~rem.table_exists
    THEN LET c == create_table(st, rem, f)
             l == Call("load", <<>>, ClientError("ResourceNotFoundException"))
         IN  [out |-> Outcome(c.st, c.rem, <<l>> \o c.calls, c.exc), ret |-> <<>>]
    ELSE LET st1 == [st EXCEPT !.total_gets = @ + 1]
             l == Call("load", <<>>, NoExc)
             e == IF f.at = "get_item" THEN f.exc ELSE NoExc
         IN  [out |-> Outcome(st1, rem, <<l, Call("get_item", <<>>, e)>>, e), ret |-> <<>>]

\* __fetch_store: the outcome, and in ret the dict it returns.
fetch_store(st, rem, f) ==
    IF f.at = "load"
    THEN [out |-> Outcome(st, rem, <<Call("load", <<>>, f.exc)>>, f.exc), ret |-> <<>>]
    ELSE IF ~rem.table_exists
    THEN LET c == create_table(st, rem, f)
             l == Call("load", <<>>, ClientError("ResourceNotFoundException"))
         IN  [out |-> Outcome(c.st, c.rem, <<l>> \o c.calls, c.exc), ret |-> <<>>]
    ELSE LET st1 == [st EXCEPT !.total_gets = @ + 1]
             l == Call("load", <<>>, NoExc)
         IN  IF f.at = "get_item"
             THEN [out |-> Outcome(st1, rem, <<l, Call("get_item", <<>>, f.exc)>>, f.exc),
                   ret |-> <<>>]
             ELSE [out |-> Outcome(st1, rem, <<l, Call("get_item", <<>>, NoExc)>>, NoExc),
                   ret |-> IF rem.item_present THEN pickle_loads(rem.item_value) ELSE <<>>]

\* A check that rejects every configuration argument.
check_for_mixed_args_strict(kwargs) ==
    KeysOf(kwargs) \cap config_keys # {}

\* _check_for_mixed_args: TRUE when it raises MixOfConfigAndMapArgsPassed.
check_for_mixed_args(kwargs) ==
    LET config_arguments == KeysOf(kwargs) \cap config_keys
        map_arguments == KeysOf(kwargs) \ config_keys
    IN  ~(kwargs = <<>> \/ (config_arguments # {} /\ map_arguments = {})
                        \/ (map_arguments # {} /\ config_arguments = {}))

\* The loop over config_keys: the environment wins over the keyword argument,
\* which wins over the default; the configuration names leave kwargs.
resolve(st, kwargs, name) ==
    LET value == os_getenv(EnvName(name), IF Has(kwargs, name) THEN Get(kwargs, name) ELSE Unset)
    IN  IF value # Unset THEN value ELSE st[name]

configure(st, kwargs) ==
    [st EXCEPT !.table_name = resolve(st, kwargs, "table_name"),
               !.table_key = resolve(st, kwargs, "table_key")]

strip_config(kwargs) == SelectSeq(kwargs, LAMBDA p : p[1] \notin config_keys)

\* An __init__ whose seed mode merges the content into the item's value.
init_merged(args, kwargs, rem, f) ==
    IF check_for_mixed_args(kwargs)
    THEN Outcome(NewInstance, rem, <<>>, MixOfConfigAndMapArgsPassed)
    ELSE LET st0 == configure(NewInstance, kwargs)
             kw == strip_config(kwargs)
         IN  IF args # <<>> \/ kw # <<>>
             THEN LET d == dict_new(args, kw)
                      old == IF rem.item_present THEN pickle_loads(rem.item_value) ELSE <<>>
                      u == update([st0 EXCEPT !.save_on_set = FALSE, !.store = old],
                                  rem, d.d, <<>>, f)
                  IN  IF d.exc # NoExc
                      THEN Outcome([st0 EXCEPT !.save_on_set = FALSE], rem, <<>>, d.exc)
                      ELSE u
             ELSE LET r == fetch_store(st0, rem, f)
                  IN  IF r.out.exc # NoExc
                      THEN Outcome(r.out.st, r.out.rem, r.out.calls, init_except(r.out.exc))
                      ELSE Outcome([r.out.st EXCEPT !.store = r.ret,
                                                    !.previous_store = deepcopy(Dict(r.ret))],
                                   r.out.rem, r.out.calls, NoExc)

\* __init__(*args, **kwargs)
init(args, kwargs, rem, f) ==
    IF check_for_mixed_args(kwargs)
    THEN Outcome(NewInstance, rem, <<>>, MixOfConfigAndMapArgsPassed)
    ELSE LET st0 == configure(NewInstance, kwargs)
             kw == strip_config(kwargs)
         IN  IF args # <<>> \/ kw # <<>>
             THEN LET d == dict_new(args, kw)
                      u == update([st0 EXCEPT !.save_on_set = FALSE], rem, d.d, <<>>, f)
                      s == save_store([u.st EXCEPT !.save_on_set = TRUE], u.rem, f)
                  IN  IF d.exc # NoExc
                      THEN Outcome([st0 EXCEPT !.save_on_set = FALSE], rem, <<>>, d.exc)
                      ELSE IF u.exc # NoExc THEN u
                      ELSE Outcome(s.st, s.rem, u.calls \o s.calls, s.exc)
             ELSE LET r == fetch_store(st0, rem, f)
                  IN  IF r.out.exc # NoExc
                      THEN Outcome(r.out.st, r.out.rem, r.out.calls, init_except(r.out.exc))
                      ELSE Outcome([r.out.st EXCEPT !.store = r.ret,
                                                    !.previous_store = deepcopy(Dict(r.ret))],
                                   r.out.rem, r.out.calls, NoExc)

\* The remote calls of a constructor without content, one at a time, for the
\* callers that share the table with another process.  init_load is __init__
\* up to the table.load() of __fetch_store: next is the call site that
\* follows, or "none" when the constructor raised.
Step(st, rem, calls, exc, next) ==
    [st |-> st, rem |-> rem, calls |-> calls, exc |-> exc, next |-> next]

init_load(kwargs, rem, f) ==
    LET st0 == configure(NewInstance, kwargs)
    IN  IF f.at = "load"
        THEN Step(st0, rem, <<Call("load", <<>>, f.exc)>>, init_except(f.exc), "none")
        ELSE IF rem.table_exists
        THEN Step(st0, rem, <<Call("load", <<>>, NoExc)>>, NoExc, "get_item")
        ELSE Step(st0, rem, <<Call("load", <<>>, ClientError("ResourceNotFoundException"))>>,
                  NoExc, "create_table")

\* The call at site `at` and what __create_table, __fetch_store and __init__
\* do until the next one: create_table answers ResourceInUseException when
\* the table is there already, the waiter gives up and load and get_item
\* answer ResourceNotFoundException when it is not.
init_step(at, st, rem, f) ==
    LET gone == ClientError("ResourceNotFoundException")
        e == IF f.at = at THEN f.exc
             ELSE IF at = "create_table" /\ rem.table_exists
             THEN ClientError("ResourceInUseException")
             ELSE IF at = "wait" /\ ~rem.table_exists THEN WaiterError
             ELSE IF at \in {"load2", "get_item", "create_put_item"} /\ ~rem.table_exists
             THEN gone
             ELSE NoExc
        b == pickle_dumps(Dict(<<>>))
        ret == IF rem.item_present THEN pickle_loads(rem.item_value) ELSE <<>>
    IN  CASE at = "create_table" ->
               IF e # NoExc
               THEN Step(st, rem, <<Call("create_table", <<>>, e)>>, init_except(e), "none")
               ELSE Step(st, [rem EXCEPT !.table_exists = TRUE],
                         <<Call("create_table", <<>>, NoExc)>>, NoExc, "wait")
          [] at = "wait" ->
               IF e # NoExc
               THEN Step(st, rem, <<Call("wait", <<>>, e)>>, init_except(e), "none")
               ELSE Step(st, rem, <<Call("wait", <<>>, NoExc)>>, NoExc, "load2")
          [] at = "load2" ->
               IF e # NoExc
               THEN Step(st, rem, <<Call("load", <<>>, e)>>, init_except(e), "none")
               ELSE Step(st, rem, <<Call("load", <<>>, NoExc)>>, NoExc, "create_put_item")
          [] at = "create_put_item" ->
               LET st1 == [st EXCEPT !.total_puts = @ + 1]
               IN  IF e # NoExc
                   THEN Step(st1, rem, <<Call("put_item", b, e)>>, init_except(e), "none")
                   ELSE Step([st1 EXCEPT !.store = <<>>,
                                         !.previous_store = deepcopy(Dict(<<>>))],
                             [rem EXCEPT !.item_present = TRUE, !.item_value = b],
                             <<Call("put_item", b, NoExc)>>, NoExc, "live")
          [] at = "get_item" ->
               LET st1 == [st EXCEPT !.total_gets = @ + 1]
               IN  IF e # NoExc
                   THEN Step(st1, rem, <<Call("get_item", <<>>, e)>>, init_except(e), "none")
                   ELSE Step([st1 EXCEPT !.store = ret,
                                         !.previous_store = deepcopy(Dict(ret))],
                             rem, <<Call("get_item", <<>>, NoExc)>>, NoExc, "live")

\* ------------------------------------------------------------------ inputs
\* Sequences over S of length at most n.
SeqsUpTo(S, n) == UNION {[1..m -> S] : m \in 0..n}

\* An iterable for dict() and update(): pairs, and elements that are no pair.
Elements == (Keys \X Values) \cup {<<"a">>}
Iterables == SeqsUpTo(Elements, MaxArgLen)

\* *args of the constructor: nothing, or one iterable.
InitArgs == {<<>>} \cup {<<it>> : it \in Iterables}

\* **kwargs: distinct names, in the order they were written.
Distinct(kw) == \A m, n \in 1..Len(kw) : kw[m][1] = kw[n][1] => m = n
ConfigValue(name) ==
    CASE name = "table_name" -> "AWSLambdaPersistence"
      [] name = "table_key" -> "fn"
      [] name = "key_field_name" -> "key"
      [] name = "value_field_name" -> "value"
ConfigArguments == {<<n, ConfigValue(n)>> : n \in config_keys}
UpdateKwargs == {kw \in SeqsUpTo(Keys \X Values, MaxKwLen) : Distinct(kw)}
ConfigKwargs == {<<>>} \cup {<<c>> : c \in ConfigArguments}
InitKwargs == {c \o m : c \in ConfigKwargs, m \in UpdateKwargs}
              \cup {m \o c : c \in ConfigKwargs, m \in UpdateKwargs}

\* The iterables whose elements are all pairs.
PairIterables == {it \in Iterables : \A n \in 1..Len(it) : Len(it[n]) = 2}

\* ------------------------------------------------------------ state machine
VARIABLES
    pc,      \* pc[i]: "none" before instance i is constructed, then "live";
             \* in between, the call site its constructor is about to reach
    obj,     \* obj[i]: the fields of instance i
    remote,  \* the DynamoDB table and the item under the instances' table_key
    last     \* the most recent call: which, on which instance, what it did

vars == <<pc, obj, remote, last>>

Did(op, i, key, value, calls, exc) ==
    [op |-> op, i |-> i, key |-> key, value |-> value, calls |-> calls, exc |-> exc]

Init ==
    /\ pc = [i \in Inst |-> "none"]
    /\ obj = [i \in Inst |-> NewInstance]
    /\ remote = NoTable
    /\ last = Did("none", 0, "", "", <<>>, NoExc)

\* A method of a live instance returned or raised: the instance keeps what
\* the method did to it either way.
Method(i, op, key, value, o) ==
    /\ obj' = [obj EXCEPT ![i] = o.st]
    /\ remote' = o.rem
    /\ last' = Did(op, i, key, value, o.calls, o.exc)
    /\ UNCHANGED pc

\* The constructor returned (the instance is live) or raised (there is none).
Constructed(i, o) ==
    /\ pc' = [pc EXCEPT ![i] = IF o.exc = NoExc THEN "live" ELSE "none"]
    /\ obj' = [obj EXCEPT ![i] = IF o.exc = NoExc THEN o.st ELSE NewInstance]
    /\ remote' = o.rem
    /\ last' = Did("init", i, "", "", o.calls, o.exc)

\* The call sites __init__ reaches with these arguments: __save_store's when
\* it is given content, __fetch_store's and __create_table's when it is not.
SitesOf(args, kwargs) ==
    IF args # <<>> \/ strip_config(kwargs) # <<>>
    THEN {"none", "put_item"}
    ELSE (AllSites \ {"put_item"}) \cup {"none"}

\* data = PersistentMap(*args, **kwargs)
Construct(i, F) ==
    /\ pc[i] = "none"
    /\ \E args \in InitArgs, kwargs \in InitKwargs :
          \E f \in {g \in F : g.at \in SitesOf(args, kwargs)} :
             \E o \in {init(args, kwargs, remote, f)} : Constructed(i, o)

SetItem(i, F) ==
    /\ pc[i] = "live" /\ obj[i].total_puts < MaxPuts
    /\ \E key \in Keys, value \in Values, f \in F :
          \E o \in {setitem(obj[i], remote, key, value, f)} :
             Method(i, "setitem", key, value, o)

DelItem(i, F) ==
    /\ pc[i] = "live" /\ obj[i].total_puts < MaxPuts
    /\ \E key \in Keys, f \in F :
          \E o \in {delitem(obj[i], remote, key, f)} : Method(i, "delitem", key, "", o)

Clear(i, F) ==
    /\ pc[i] = "live" /\ obj[i].total_puts < MaxPuts
    /\ \E f \in F :
          \E o \in {clear(obj[i], remote, f)} : Method(i, "clear", "", "", o)

Update(i, F, Others, Kwargs) ==
    /\ pc[i] = "live" /\ obj[i].total_puts < MaxPuts
    /\ \E other \in Others, kwargs \in Kwargs, f \in F :
          \E o \in {update(obj[i], remote, other, kwargs, f)} :
             Method(i, "update", "", "", o)

\* data[key], key in data
GetItem(i) ==
    /\ pc[i] = "live"
    /\ \E key \in Keys :
          \E r \in {getitem(obj[i], remote, key)} : Method(i, "getitem", key, "", r.out)

\* for key in data
Iter(i) ==
    /\ pc[i] = "live"
    /\ \E r \in {iter(obj[i], remote)} : Method(i, "iter", "", "", r.out)

\* len(data)
LenOf(i) ==
    /\ pc[i] = "live"
    /\ \E r \in {len(obj[i], remote)} : Method(i, "len", "", "", r.out)

\* repr(data)
Repr(i) ==
    /\ pc[i] = "live"
    /\ \E r \in {repr(obj[i], remote)} : Method(i, "repr", "", "", r.out)

\* del data: the name is free for the next instance (to = "none"), or the
\* process ends with it (to = "done").
Del(i, to) ==
    /\ pc[i] = "live"
    /\ pc' = [pc EXCEPT ![i] = to]
    /\ obj' = [obj EXCEPT ![i] = NewInstance]
    /\ last' = Did("del", i, "", "", <<>>, NoExc)
    /\ UNCHANGED remote

\* data = PersistentMap(*args, **kwargs) in a process that shares the table
\* with another: a constructor with content issues one remote call, one
\* without content issues its table.load() here and the calls that follow
\* one by one, and the other process may run between any two of them.
InitSites == {"create_table", "wait", "load2", "create_put_item", "get_item"}

Stepped(i, o) ==
    /\ pc' = [pc EXCEPT ![i] = o.next]
    /\ obj' = [obj EXCEPT ![i] = IF o.next = "none" THEN NewInstance ELSE o.st]
    /\ remote' = o.rem
    /\ last' = Did("init", i, "", "", o.calls, o.exc)

ConstructBegin(i, F) ==
    /\ pc[i] = "none"
    /\ \E args \in InitArgs, kwargs \in InitKwargs :
          IF args = <<>> /\ strip_config(kwargs) = <<>>
          THEN \E f \in {g \in F : g.at \in {"none", "load"}} :
                  \E o \in {init_load(kwargs, remote, f)} : Stepped(i, o)
          ELSE \E f \in {g \in F : g.at \in SitesOf(args, kwargs)} :
                  \E o \in {init(args, kwargs, remote, f)} : Constructed(i, o)

ConstructStep(i, F) ==
    /\ pc[i] \in InitSites
    /\ \E f \in {g \in F : g.at \in {"none", pc[i]}} :
          \E o \in {init_step(pc[i], obj[i], remote, f)} : Stepped(i, o)

\* The test's table.delete_item(Key={key_field_name: table_key}), which it
\* calls while its instance is still bound, and its
\* client.delete_table(TableName=table_name), which it calls before it
\* constructs any.
TestDeleteItem ==
    /\ remote.item_present
    /\ remote' = [remote EXCEPT !.item_present = FALSE, !.item_value = <<>>]
    /\ last' = Did("delete_item", 0, "", "", <<>>, NoExc)
    /\ UNCHANGED <<pc, obj>>

TestDeleteTable ==
    /\ \A i \in Inst : pc[i] = "none"
    /\ remote.table_exists
    /\ remote' = NoTable
    /\ last' = Did("delete_table", 0, "", "", <<>>, NoExc)
    /\ UNCHANGED <<pc, obj>>

PutFaults == {NoFault} \cup FaultsAt({"put_item"})

\* The map is made for one instance per invocation and one invocation at a
\* time: each invocation constructs its instance, uses it and drops it.
Invocation == 1

Next ==
    \/ Construct(Invocation, Faults)
    \/ SetItem(Invocation, PutFaults)
    \/ DelItem(Invocation, PutFaults)
    \/ Clear(Invocation, PutFaults)
    \/ Update(Invocation, PutFaults, Iterables, UpdateKwargs)
    \/ Del(Invocation, "none")
    \/ TestDeleteItem
    \/ TestDeleteTable

Spec == Init /\ [][Next]_vars

\* The same program against a backing store that answers every call.
NextReliable ==
    \/ Construct(Invocation, {NoFault})
    \/ SetItem(Invocation, {NoFault})
    \/ DelItem(Invocation, {NoFault})
    \/ Clear(Invocation, {NoFault})
    \/ Update(Invocation, {NoFault}, Iterables, UpdateKwargs)
    \/ Del(Invocation, "none")
    \/ TestDeleteItem
    \/ TestDeleteTable

SpecReliable == Init /\ [][NextReliable]_vars

\* The mutations and the reads of an instance, against a table that answers
\* every call of a mutation.
NextReads ==
    \/ Construct(Invocation, Faults)
    \/ SetItem(Invocation, {NoFault})
    \/ DelItem(Invocation, {NoFault})
    \/ Clear(Invocation, {NoFault})
    \/ Update(Invocation, {NoFault}, Iterables, UpdateKwargs)
    \/ GetItem(Invocation)
    \/ Iter(Invocation)
    \/ LenOf(Invocation)
    \/ Repr(Invocation)
    \/ Del(Invocation, "none")
    \/ TestDeleteItem
    \/ TestDeleteTable

SpecReads == Init /\ [][NextReads]_vars

\* Two instances bound to the same table and key, one in each of two
\* processes.  Every step is at most one remote call of one process, so the
\* calls of the two reach the table in the order of the steps.
\* Each process passes any of the value objects, so a value it passes may
\* or may not be the object its constructor loaded; the entries it gives to
\* update are pairs.
NextConcurrent ==
    \E i \in Inst :
       \/ ConstructBegin(i, {NoFault})
       \/ ConstructStep(i, {NoFault})
       \/ SetItem(i, {NoFault})
       \/ DelItem(i, {NoFault})
       \/ Clear(i, {NoFault})
       \/ Update(i, {NoFault}, PairIterables, UpdateKwargs)
       \/ Del(i, "done")

SpecConcurrent == Init /\ [][NextConcurrent]_vars

\* ------------------------------------------------------------------ claims
MutatingOps == {"setitem", "delitem", "clear", "update"}
Puts(calls) == SelectSeq(calls, LAMBDA c : c.name = "put_item")
Gets(calls) == SelectSeq(calls, LAMBDA c : c.name = "get_item")
FailedPuts(calls) == SelectSeq(calls, LAMBDA c : c.name = "put_item" /\ c.exc # NoExc)
Names(calls) == [n \in 1..Len(calls) |-> calls[n].name]
EmptyPickle == <<"}", ".">>
Content(d) == [n \in 1..Len(d) |-> <<d[n][1], StrOf(d[n][2])>>]

\* C1: every single set-item, delete-item, clear or update issues at most one
\* put_item, and none when the store it leaves pickles identically to the
\* snapshot (_previous_store) it found.
C1_AtMostOnePut ==
    [][last'.op \in MutatingOps =>
          /\ Len(Puts(last'.calls)) <= 1
          /\ pickle_dumps(Dict(obj'[last'.i].store)) = pickle_dumps(obj[last'.i].previous_store)
                => Puts(last'.calls) = <<>>]_vars

\* An update that merged two entries was written with one put_item.
C1_Witness ==
    /\ last.op = "update"
    /\ Len(Puts(last.calls)) = 1
    /\ Len(obj[last.i].store) = 2
    /\ obj[last.i].total_puts = 1

\* C2: set-item(k, v) where k is in store with a value that pickles
\* identically to v does nothing: no remote call, no counter, store, snapshot
\* or remote change, and it returns normally.
C2_SetSameValueIsNoOp ==
    [][(/\ last'.op = "setitem"
        /\ Has(obj[last'.i].store, last'.key)
        /\ pickle_dumps_str(Get(obj[last'.i].store, last'.key)) = pickle_dumps_str(last'.value))
          => /\ last'.calls = <<>>
             /\ last'.exc = NoExc
             /\ obj' = obj
             /\ remote' = remote]_vars

\* A set-item of another str object with the content the key already has, on
\* an instance whose earlier put failed (store and snapshot differ): nothing
\* was issued and the key keeps its object.
C2_Witness ==
    /\ last.op = "setitem"
    /\ last.calls = <<>>
    /\ Has(obj[last.i].store, last.key)
    /\ Get(obj[last.i].store, last.key) # last.value
    /\ StrOf(Get(obj[last.i].store, last.key)) = StrOf(last.value)
    /\ obj[last.i].save_on_set
    /\ Dict(obj[last.i].store) # obj[last.i].previous_store

\* C3: persistence round trip across instances.  Against a backing store that
\* answers every call (so every write of the instance succeeded) and whose
\* item nobody has deleted, a new instance constructed with no arguments
\* after any sequence of mutating operations has the content of the earlier
\* instance's store, total_gets = 1 and total_puts = 0.
C3_RoundTrip ==
    \A i \in Inst :
       (pc[i] = "live" /\ remote.item_present) =>
          LET o == init(<<>>, <<>>, remote, NoFault)
          IN  /\ o.exc = NoExc
              /\ Content(o.st.store) = Content(obj[i].store)
              /\ o.st.total_gets = 1
              /\ o.st.total_puts = 0

\* C4 as claimed: for any entries E (an iterable of pairs and keyword entries)
\* that change the content of the map, update(E) issues exactly one put_item,
\* and update(E) again right after it issues none and leaves store unchanged.
C4_BulkCollapse ==
    \A i \in Inst :
       pc[i] = "live" =>
          \A other \in Iterables, kwargs \in UpdateKwargs, f \in PutFaults :
             LET o1 == update(obj[i], remote, other, kwargs, f)
                 o2 == update(o1.st, o1.rem, other, kwargs, NoFault)
             IN  (/\ dict_new(<<other>>, kwargs).exc = NoExc
                  /\ Content(o1.st.store) # Content(obj[i].store))
                    => /\ Len(Puts(o1.calls)) = 1
                       /\ Puts(o2.calls) = <<>>
                       /\ o2.st.store = o1.st.store

\* C4 amended: for any entries E that change the content of a map whose store
\* pickles identically to the snapshot, update(E) issues exactly one put_item;
\* when that put succeeds, update(E) again right after it issues none and
\* leaves store unchanged.
C4_BulkCollapseFromSaved ==
    \A i \in Inst :
       (pc[i] = "live"
          /\ pickle_dumps(Dict(obj[i].store)) = pickle_dumps(obj[i].previous_store)) =>
          \A other \in Iterables, kwargs \in UpdateKwargs, f \in PutFaults :
             LET o1 == update(obj[i], remote, other, kwargs, f)
                 o2 == update(o1.st, o1.rem, other, kwargs, NoFault)
             IN  (/\ dict_new(<<other>>, kwargs).exc = NoExc
                  /\ Content(o1.st.store) # Content(obj[i].store))
                    => /\ Len(Puts(o1.calls)) = 1
                       /\ o1.exc = NoExc => /\ Puts(o2.calls) = <<>>
                                            /\ o2.st.store = o1.st.store

\* An update has just changed the map and was written with one put_item, and
\* an update with the entries the map now holds issues nothing.
C4_Witness ==
    /\ last.op = "update"
    /\ last.exc = NoExc
    /\ Len(Puts(last.calls)) = 1
    /\ obj[last.i].store # <<>>
    /\ Dict(obj[last.i].store) = obj[last.i].previous_store
    /\ update(obj[last.i], remote, obj[last.i].store, <<>>, NoFault).calls = <<>>

\* C5: seed-mode construction (a positional argument, or a keyword argument
\* that is no configuration name; arguments the constructor accepts, the
\* positional one an iterable of pairs) issues exactly one put_item, which
\* carries the full store, and no get_item, whether or not the entries are
\* empty; the store is the merged entries, a keyword entry overriding the
\* positional ones of the same key, and when the constructor returns
\* total_puts = 1 and total_gets = 0.
C5_Keyword(kwargs, k) == kwargs[CHOOSE n \in 1..Len(kwargs) : kwargs[n][1] = k][2]
C5_Positional(it, k) ==
    LET at == {n \in 1..Len(it) : it[n][1] = k}
    IN  it[CHOOSE n \in at : \A m \in at : m <= n][2]
C5_SeedConstruction ==
    (\A i \in Inst : pc[i] = "none") =>
       \A args \in InitArgs, kwargs \in InitKwargs, f \in PutFaults :
          LET names == {kwargs[n][1] : n \in 1..Len(kwargs)}
              it == IF args = <<>> THEN <<>> ELSE args[1]
              seed == args # <<>> \/ names \ config_keys # {}
              accepted == ~(names \cap config_keys # {} /\ names \ config_keys # {})
              pairs == \A n \in 1..Len(it) : Len(it[n]) = 2
              o == init(args, kwargs, remote, f)
          IN  (seed /\ accepted /\ pairs) =>
                 /\ Names(o.calls) = <<"put_item">>
                 /\ o.calls[1].item = pickle_dumps(Dict(o.st.store))
                 /\ KeysOf(o.st.store) = {it[n][1] : n \in 1..Len(it)} \cup (names \ config_keys)
                 /\ \A k \in KeysOf(o.st.store) :
                       Get(o.st.store, k) = IF k \in names THEN C5_Keyword(kwargs, k)
                                            ELSE C5_Positional(it, k)
                 /\ o.exc = NoExc => o.st.total_puts = 1 /\ o.st.total_gets = 0

\* PersistentMap({}) returned: one put_item of the pickled empty dict.
C5_Witness ==
    /\ last.op = "init" /\ last.exc = NoExc
    /\ Names(last.calls) = <<"put_item">>
    /\ last.calls[1].item = EmptyPickle
    /\ pc[last.i] = "live"
    /\ obj[last.i].store = <<>>
    /\ obj[last.i].total_puts = 1 /\ obj[last.i].total_gets = 0

\* C6: load-mode construction against an absent table creates the table,
\* waits until it exists and then puts one item holding the pickled empty
\* dict, in this order; the instance ends with an empty store, an empty
\* snapshot, total_gets = 0 and total_puts = 1.
C6_IsPrefix(a, b) == Len(a) <= Len(b) /\ \A n \in 1..Len(a) : a[n] = b[n]
C6_Provisioning ==
    [][(/\ last'.op = "init"
        /\ last'.calls # <<>> /\ last'.calls[1].name = "load"
        /\ ~remote.table_exists)
          => /\ C6_IsPrefix(Names(last'.calls),
                            <<"load", "create_table", "wait", "load", "put_item">>)
             /\ last'.exc = NoExc
                   => /\ Len(last'.calls) = 5
                      /\ last'.calls[5].item = EmptyPickle
                      /\ remote'.table_exists
                      /\ remote'.item_present /\ remote'.item_value = EmptyPickle
                      /\ obj'[last'.i].store = <<>>
                      /\ obj'[last'.i].previous_store = Dict(<<>>)
                      /\ obj'[last'.i].total_gets = 0
                      /\ obj'[last'.i].total_puts = 1]_vars

\* PersistentMap() has just provisioned the table.
C6_Witness ==
    /\ last.op = "init" /\ last.exc = NoExc
    /\ Names(last.calls) = <<"load", "create_table", "wait", "load", "put_item">>
    /\ pc[last.i] = "live"
    /\ obj[last.i].total_puts = 1 /\ obj[last.i].total_gets = 0
    /\ remote.item_value = EmptyPickle

\* C7: load-mode construction against an existing table that holds no item for
\* the instance's key leaves store empty and writes nothing (total_gets = 1,
\* total_puts = 0, item still absent), and the first later mutation that
\* changes the content issues exactly one put_item.
C7_LoadAbsentRecord ==
    [][/\ (/\ last'.op = "init"
           /\ last'.calls # <<>> /\ last'.calls[1].name = "load"
           /\ remote.table_exists /\ ~remote.item_present
           /\ last'.exc = NoExc)
          => /\ obj'[last'.i].store = <<>>
             /\ obj'[last'.i].total_gets = 1
             /\ obj'[last'.i].total_puts = 0
             /\ Puts(last'.calls) = <<>>
             /\ ~remote'.item_present
       /\ (/\ last'.op \in MutatingOps
           /\ obj[last'.i].total_gets = 1 /\ obj[last'.i].total_puts = 0
           /\ obj[last'.i].store = <<>> /\ ~remote.item_present
           /\ obj'[last'.i].store # <<>>)
          => Len(Puts(last'.calls)) = 1]_vars

\* C8: when the put_item of a set-item, delete-item, clear or update fails,
\* the snapshot stays as it was and store keeps the mutated content (the
\* content the failed put carried; for set-item the new value, for
\* delete-item without the key, for clear empty); the snapshot changes only
\* with a put that succeeded, to the content that put carried.
C8_FailedPutKeepsSnapshot ==
    [][last'.op \in MutatingOps =>
          LET i == last'.i
              failed == FailedPuts(last'.calls)
              done == SelectSeq(last'.calls, LAMBDA c : c.name = "put_item" /\ c.exc = NoExc)
          IN  /\ failed # <<>>
                    => /\ obj'[i].previous_store = obj[i].previous_store
                       /\ pickle_dumps(Dict(obj'[i].store)) = failed[1].item
                       /\ last'.op = "setitem" => /\ Has(obj'[i].store, last'.key)
                                                  /\ Get(obj'[i].store, last'.key) = last'.value
                       /\ last'.op = "delitem" => ~Has(obj'[i].store, last'.key)
                       /\ last'.op = "clear" => obj'[i].store = <<>>
                       /\ last'.exc # NoExc
              /\ obj'[i].previous_store # obj[i].previous_store
                    => /\ done # <<>>
                       /\ pickle_dumps(obj'[i].previous_store) = done[1].item]_vars

\* A set-item whose put_item failed: store has the new value, the snapshot
\* does not.
C8_Witness ==
    /\ last.op = "setitem"
    /\ FailedPuts(last.calls) # <<>>
    /\ Has(obj[last.i].store, last.key)
    /\ ~Has(obj[last.i].previous_store.items, last.key)

\* C9: after the put_item of a mutating operation failed, store and snapshot
\* differ, and the next mutation attempt on the instance (set-item,
\* delete-item, clear or update, a repeat of the failed one included) that
\* leaves them different issues a put_item carrying the full current store.
C9_FailedWriteRetried ==
    [][(/\ last.op \in MutatingOps /\ FailedPuts(last.calls) # <<>>
        /\ last'.op \in MutatingOps /\ last'.i = last.i)
          => /\ pickle_dumps(Dict(obj[last.i].store)) # pickle_dumps(obj[last.i].previous_store)
             /\ pickle_dumps(Dict(obj'[last.i].store)) # pickle_dumps(obj[last.i].previous_store)
                   => /\ Len(Puts(last'.calls)) = 1
                      /\ Puts(last'.calls)[1].item = pickle_dumps(Dict(obj'[last.i].store))]_vars

\* C10: an AccessDeniedException of the backing store, at any remote call of
\* the constructor (fetch or provisioning) or of a save, reaches the caller as
\* MissingAWSIAMPermissions(PERMISSION_MESSAGE); every other failure reaches
\* the caller as it was raised, and the failed call is the last one issued.
\* (That table.load finds no table is how __fetch_store learns that it has to
\* provision, not a failure.)
C10_Surfaced(e) ==
    IF e = [exc |-> "ClientError", arg |-> "AccessDeniedException"]
    THEN [exc |-> "MissingAWSIAMPermissions", arg |-> PERMISSION_MESSAGE]
    ELSE e
C10_ErrorsSurfaced ==
    [][\A n \in 1..Len(last'.calls) :
          LET c == last'.calls[n]
              absent == /\ n = 1 /\ c.name = "load"
                        /\ c.exc = [exc |-> "ClientError", arg |-> "ResourceNotFoundException"]
          IN  (c.exc # NoExc /\ ~absent)
                 => /\ n = Len(last'.calls)
                    /\ last'.exc = C10_Surfaced(c.exc)]_vars

\* The put_item of provisioning was denied and the constructor raised
\* MissingAWSIAMPermissions.
C10_Witness ==
    /\ last.op = "init"
    /\ last.exc = [exc |-> "MissingAWSIAMPermissions", arg |-> PERMISSION_MESSAGE]
    /\ Len(last.calls) = 5
    /\ last.calls[5].name = "put_item"
    /\ last.calls[5].exc.arg = "AccessDeniedException"

\* C11: delete-item of a key that store does not have raises KeyError and does
\* nothing else: no remote call, and store, snapshot, total_puts, total_gets
\* (every field of the instance) and the remote item are as they were.
C11_DeleteAbsentKey ==
    [][(last'.op = "delitem" /\ ~Has(obj[last'.i].store, last'.key))
          => /\ last'.exc = [exc |-> "KeyError", arg |-> last'.key]
             /\ last'.calls = <<>>
             /\ obj' = obj
             /\ remote' = remote]_vars

\* A delete-item of an absent key raised KeyError on an instance whose store
\* and snapshot differ (a save would have issued a put_item).
C11_Witness ==
    /\ last.op = "delitem"
    /\ last.exc.exc = "KeyError"
    /\ ~Has(obj[last.i].store, last.key)
    /\ obj[last.i].save_on_set
    /\ pickle_dumps(Dict(obj[last.i].store)) # pickle_dumps(obj[last.i].previous_store)

\* C12: the constructor raises MixOfConfigAndMapArgsPassed if and only if its
\* keyword arguments hold at least one configuration name and at least one
\* other name; no keyword, configuration names only and content names only
\* are accepted; when it raises, no remote call was issued, the remote side
\* is as it was and no field of the map beyond the defaults was set.
C12_Disambiguation ==
    (\A i \in Inst : pc[i] = "none") =>
       \A kwargs \in InitKwargs :
          LET names == {kwargs[n][1] : n \in 1..Len(kwargs)}
              conf == {n \in names : n \in {"table_name", "table_key",
                                             "key_field_name", "value_field_name"}}
              mixed == conf # {} /\ names \ conf # {}
          IN  /\ check_for_mixed_args(kwargs) <=> mixed
              /\ \A args \in InitArgs :
                  \A f \in {g \in Faults : g.at \in SitesOf(args, kwargs)} :
                    LET o == init(args, kwargs, remote, f)
                    IN  /\ o.exc.exc = "MixOfConfigAndMapArgsPassed" <=> mixed
                        /\ mixed => /\ o.calls = <<>>
                                    /\ o.rem = remote
                                    /\ o.st = NewInstance

\* The constructor refused a mix of arguments against an existing table with
\* an item: nothing was called and there is no instance.
C12_Witness ==
    /\ last.op = "init"
    /\ last.exc.exc = "MixOfConfigAndMapArgsPassed"
    /\ last.calls = <<>>
    /\ pc[last.i] = "none"
    /\ remote.item_present

\* C13 as claimed: between the operations of a single instance the snapshot
\* is None, and then the instance has not been in contact with the table
\* (no get_item, no put_item), or the table holds an item for the instance's
\* key and the snapshot is the value of that item, the value the most recent
\* successful put_item carried.
C13_SnapshotIsPersisted ==
    \A i \in Inst :
       pc[i] = "live" =>
          \/ /\ obj[i].previous_store = None
             /\ obj[i].total_puts = 0 /\ obj[i].total_gets = 0
          \/ /\ remote.item_present
             /\ pickle_dumps(obj[i].previous_store) = remote.item_value

\* C13 amended: between the operations of a single instance the snapshot is
\* None, and then the instance has not been in contact with the table, or it
\* is the value of the item the table holds for the instance's key, whenever
\* the table holds one.  (It holds none when the instance loaded from a table
\* without the item, and the snapshot is then the empty dict, or when the
\* item was deleted after the instance read or wrote it.)
C13_SnapshotIsRecord ==
    \A i \in Inst :
       pc[i] = "live" =>
          \/ /\ obj[i].previous_store = None
             /\ obj[i].total_puts = 0 /\ obj[i].total_gets = 0
          \/ /\ remote.item_present
             /\ pickle_dumps(obj[i].previous_store) = remote.item_value
          \/ /\ ~remote.item_present
             /\ obj[i].previous_store # None

\* After a put_item that succeeded and one that failed, the snapshot is the
\* non-empty value of the item and store is something else.
C13_Witness ==
    /\ last.op \in MutatingOps
    /\ FailedPuts(last.calls) # <<>>
    /\ remote.item_present
    /\ obj[last.i].previous_store.items # <<>>
    /\ pickle_dumps(obj[last.i].previous_store) = remote.item_value
    /\ pickle_dumps(Dict(obj[last.i].store)) # remote.item_value

\* C14: clear() of a map whose store is already empty issues at most one
\* put_item, none when the snapshot is already the empty dict, and leaves
\* the length 0; a clear() right after a clear() that returned normally
\* issues no put_item.
C14_IdempotentClear ==
    [][last'.op = "clear" =>
          LET i == last'.i
          IN  /\ Len(obj[i].store) = 0
                    => /\ Len(Puts(last'.calls)) <= 1
                       /\ obj[i].previous_store = [isNone |-> FALSE, items |-> <<>>]
                             => last'.calls = <<>>
                       /\ Len(obj'[i].store) = 0
              /\ (last.op = "clear" /\ last.i = i /\ last.exc = NoExc)
                    => /\ Puts(last'.calls) = <<>>
                       /\ Len(obj'[i].store) = 0]_vars

\* A clear() has just written the empty dict with one put_item, and a second
\* clear() issues nothing.
C14_Witness ==
    /\ last.op = "clear"
    /\ last.exc = NoExc
    /\ Len(Puts(last.calls)) = 1
    /\ last.calls[1].item = EmptyPickle
    /\ obj[last.i].store = <<>>
    /\ clear(obj[last.i], remote, NoFault).calls = <<>>

\* C15: with two instances on the same table and key and a service that
\* answers every call, in every interleaving of their constructors' calls
\* and their mutations no remote call of a mutation fails, whatever the item
\* holds and whatever the writer's snapshot is: the mutation returns, or
\* raises the KeyError of its own argument.  After any step
\* with a successful put_item the item is the pickled full store of the
\* writer, the value that put carried; a step without one leaves the item
\* as it was; the other instance is not touched.
C15_LastWriteWins ==
    [][last'.op \in MutatingOps \cup {"init"} =>
          LET i == last'.i
              done == SelectSeq(last'.calls, LAMBDA c : c.name = "put_item" /\ c.exc = NoExc)
          IN  /\ last'.op \in MutatingOps
                    => /\ \A n \in 1..Len(last'.calls) : last'.calls[n].exc = NoExc
                       /\ last'.exc.exc \in {"None", "KeyError"}
              /\ done # <<>>
                    => /\ Len(done) = 1
                       /\ remote'.item_present
                       /\ remote'.item_value = done[1].item
                       /\ done[1].item = pickle_dumps(Dict(obj'[i].store))
              /\ done = <<>>
                    => /\ remote'.item_present = remote.item_present
                       /\ remote'.item_value = remote.item_value
              /\ \A j \in Inst \ {i} : obj'[j] = obj[j] /\ pc'[j] = pc[j]]_vars

\* Instance 1 provisioned the table and wrote key a; instance 2, which had
\* loaded the empty item before, has just set key b with its only put_item:
\* the item holds b and not a, which instance 1 still has in its snapshot.
C15_Witness ==
    /\ pc[1] = "live" /\ pc[2] = "live"
    /\ last.op = "setitem" /\ last.i = 2 /\ last.key = "b"
    /\ Len(Puts(last.calls)) = 1
    /\ obj[2].total_puts = 1 /\ obj[2].total_gets = 1
    /\ obj[1].total_puts >= 1
    /\ obj[1].previous_store = Dict(obj[1].store)
    /\ Has(obj[1].store, "a")
    /\ remote.item_value = pickle_dumps(Dict(obj[2].store))
    /\ ~Has(pickle_loads(remote.item_value), "a")

\* C16: the table is created only by a constructor without content whose
\* table.load found no table.  A constructor with content against an absent
\* table issues its one put_item, which fails (with ResourceNotFoundException
\* unless the service failed otherwise), the ResourceNotFoundException
\* reaches the caller unchanged, there is no instance and still no table.  No
\* set-item, delete-item, clear or update creates the table, also when the
\* table is gone under a live instance: its put_item then fails with
\* ResourceNotFoundException.
C16_NotFound == [exc |-> "ClientError", arg |-> "ResourceNotFoundException"]
C16_Creates(o) == \/ \E n \in 1..Len(o.calls) : o.calls[n].name = "create_table"
                  \/ o.rem.table_exists
C16_Gone(o) == /\ ~C16_Creates(o)
               /\ Len(o.calls) <= 1
               /\ o.calls # <<>> => /\ o.calls[1].name = "put_item"
                                    /\ o.calls[1].exc = C16_NotFound
                                    /\ o.exc = C16_NotFound
C16_MutationsDoNotCreate ==
    \A i \in Inst :
       pc[i] = "live" =>
          /\ \A key \in Keys, value \in Values :
                C16_Gone(setitem(obj[i], NoTable, key, value, NoFault))
          /\ \A key \in Keys :
                Has(obj[i].store, key) => C16_Gone(delitem(obj[i], NoTable, key, NoFault))
          /\ C16_Gone(clear(obj[i], NoTable, NoFault))
          /\ \A other \in Iterables, kwargs \in UpdateKwargs :
                LET o == update(obj[i], NoTable, other, kwargs, NoFault)
                IN  o.exc.exc # "ValueError" => C16_Gone(o)
C16_ProvisioningOnlyOnLoad ==
    /\ []C16_MutationsDoNotCreate
    /\ [][/\ (\/ \E n \in 1..Len(last'.calls) : last'.calls[n].name = "create_table"
              \/ remote'.table_exists /\ ~remote.table_exists)
             => /\ last'.op = "init"
                /\ ~remote.table_exists
                /\ last'.calls[1].name = "load"
                /\ last'.calls[1].exc = C16_NotFound
          /\ (/\ last'.op = "init" /\ ~remote.table_exists
              /\ last'.calls # <<>> /\ last'.calls[1].name = "put_item")
             => /\ Len(last'.calls) = 1
                /\ last'.calls[1].exc # NoExc
                /\ last'.calls[1].exc.arg \in {"ResourceNotFoundException",
                                               "AccessDeniedException", "InternalServerError"}
                /\ last'.calls[1].exc = C16_NotFound => last'.exc = C16_NotFound
                /\ remote' = remote
                /\ pc'[last'.i] = "none"]_vars

\* PersistentMap(...) with content has just failed against an absent table:
\* one put_item, ResourceNotFoundException raised, no table, no instance.
C16_Witness ==
    /\ last.op = "init"
    /\ Names(last.calls) = <<"put_item">>
    /\ last.calls[1].item # EmptyPickle
    /\ last.calls[1].exc = [exc |-> "ClientError", arg |-> "ResourceNotFoundException"]
    /\ last.exc = [exc |-> "ClientError", arg |-> "ResourceNotFoundException"]
    /\ ~remote.table_exists
    /\ pc[last.i] = "none"

\* C17: once the constructor has returned, no call on the instance issues a
\* get_item: every mutation (set-item, delete-item, clear, update) and every
\* read (get-item, iteration, length, repr) leaves total_gets as it was, so
\* it stays at the value the constructor left, 1 after a load from an
\* existing table and 0 after seed mode or provisioning; a read issues no
\* remote call at all and leaves every field of the instance (total_puts,
\* store, snapshot) and the remote item unchanged.
C17_ReadOps == {"getitem", "iter", "len", "repr"}
C17_NoGetAfterConstruction ==
    [][LET i == last'.i
       IN  /\ last'.op \in MutatingOps \cup C17_ReadOps
                 => /\ \A n \in 1..Len(last'.calls) : last'.calls[n].name = "put_item"
                    /\ obj'[i].total_gets = obj[i].total_gets
           /\ last'.op \in C17_ReadOps
                 => /\ last'.calls = <<>>
                    /\ obj' = obj
                    /\ remote' = remote
           /\ (last'.op = "init" /\ last'.exc = NoExc)
                 => /\ obj'[i].total_gets = Len(Gets(last'.calls))
                    /\ obj'[i].total_gets =
                          IF last'.calls[1].name = "load" /\ remote.table_exists
                          THEN 1 ELSE 0]_vars

\* A get-item has just returned on an instance that loaded from an existing
\* table and has written since: total_gets is still 1.
C17_Witness ==
    /\ last.op = "getitem"
    /\ last.exc = NoExc
    /\ last.calls = <<>>
    /\ obj[last.i].total_gets = 1
    /\ obj[last.i].total_puts >= 1
    /\ obj[last.i].previous_store = Dict(obj[last.i].store)

\* C18: whenever no call is in progress on an instance (after the
\* constructor and after every clear() or update(), whether it returned or
\* raised, an update whose merge raised on a malformed entry included),
\* save_on_set is True, so that a later mutation that changes the content
\* is written and not kept in memory only.
C18_SaveOnSetEnabled ==
    \A i \in Inst : pc[i] = "live" => obj[i].save_on_set

\* C19: whenever a set-item, delete-item, clear or update has returned
\* normally, store pickles identically to the snapshot, also after earlier
\* puts failed, and so it does when the constructor has returned; store and
\* snapshot differ only after a mutation that raised.
C19_Differ(st) == pickle_dumps(Dict(st.store)) # pickle_dumps(st.previous_store)
C19_StoreIsSnapshotAfterReturn ==
    [][(/\ last'.op \in MutatingOps \cup {"init"}
        /\ pc'[last'.i] = "live"
        /\ C19_Differ(obj'[last'.i]))
          => /\ last'.op \in MutatingOps
             /\ last'.exc # NoExc]_vars

\* C20: a constructor with content (seed mode) against an existing table
\* neither reads nor merges the item: it issues no load and no get_item, its
\* one put_item replaces the whole value, and when it succeeds the item holds
\* exactly the seed entries, so that an instance constructed without
\* arguments afterwards has the seed entries and no key persisted before
\* that is not among them.
C20_Value(it, kwargs, k) ==
    LET kw == {n \in 1..Len(kwargs) : kwargs[n][1] = k}
        at == {n \in 1..Len(it) : it[n][1] = k}
    IN  IF kw # {} THEN kwargs[CHOOSE n \in kw : TRUE][2]
        ELSE it[CHOOSE n \in at : \A m \in at : m <= n][2]
C20_SeedReplacesRecord ==
    ((\E i \in Inst : pc[i] = "none") /\ remote.table_exists) =>
       \A args \in InitArgs, kwargs \in InitKwargs :
          LET names == {kwargs[n][1] : n \in 1..Len(kwargs)}
              it == IF args = <<>> THEN <<>> ELSE args[1]
              content == names \ {"table_name", "table_key", "key_field_name",
                                  "value_field_name"}
              seed == /\ args # <<>> \/ content # {}
                      /\ content = names \/ content = {}
                      /\ \A n \in 1..Len(it) : Len(it[n]) = 2
              keys == {it[n][1] : n \in 1..Len(it)} \cup content
              o == init(args, kwargs, remote, NoFault)
              later == init(<<>>, <<>>, o.rem, NoFault)
          IN  seed =>
                 /\ o.exc = NoExc
                 /\ Names(o.calls) = <<"put_item">>
                 /\ o.rem.item_present
                 /\ o.rem.item_value = o.calls[1].item
                 /\ KeysOf(pickle_loads(o.rem.item_value)) = keys
                 /\ later.exc = NoExc
                 /\ KeysOf(later.st.store) = keys
                 /\ \A k \in keys :
                       StrOf(Get(later.st.store, k)) = StrOf(C20_Value(it, kwargs, k))
                 /\ pickle_dumps(Dict(later.st.store)) = o.rem.item_value

\* Instance 1 has written key a (the item held its snapshot); instance 2 has
\* just been constructed with content without key a: the item is the store
\* of instance 2 and has no key a.
C20_Witness ==
    /\ pc[1] = "live" /\ pc[2] = "live"
    /\ last.op = "init" /\ last.i = 2 /\ last.exc = NoExc
    /\ Names(last.calls) = <<"put_item">>
    /\ obj[2].total_puts = 1 /\ obj[2].total_gets = 0
    /\ obj[2].store # <<>>
    /\ ~Has(obj[2].store, "a")
    /\ obj[1].total_puts >= 1
    /\ obj[1].previous_store = Dict(obj[1].store)
    /\ Has(obj[1].store, "a")
    /\ remote.item_value = pickle_dumps(Dict(obj[2].store))
    /\ ~Has(pickle_loads(remote.item_value), "a")

====
